---- MODULE Spec2Model ----
(***************************************************************************)
(* Model of strict-cantus: the Cantus melody model (cantus.py), the rule   *)
(* battery (general_rules.py, mode_rules.py), the interval/degree          *)
(* conversions (converter.py) and the generation pipeline (generator.py).  *)
(* Python lists and tuples are sequences (index 1 is Python's index 0).    *)
(***************************************************************************)
EXTENDS Integers, Sequences, FiniteSets, TLC

(***************************************************************************)
(* Bounds of the model                                                     *)
(***************************************************************************)
\* alphabets are the ranges -k..k and -k..k-1 without 0, for k up to MaxInterval
MaxInterval == 3
\* melody_length ranges over 0..MaxMelodyLength
MaxMelodyLength == 5
\* step_count_threshold ranges over 0..MaxThreshold
MaxThreshold == 3
\* size of the multiprocessing pool
NumWorkers == 2
\* interval lists handed to a Cantus directly: length 0..MaxCantusLen over -MaxCantusStep..MaxCantusStep
MaxCantusLen == 4
MaxCantusStep == 2
\* converter inputs: integers -MaxStandard..MaxStandard, and pitch lists of length
\* 0..MaxPitchListLen over -MaxPitch..MaxPitch
MaxStandard == 60
MaxPitchListLen == 2
MaxPitch == 8
\* interval lists handed to the rule predicates: length 0..MaxRuleLen over
\* -MaxRuleStep..MaxRuleStep+1 without the unison (main's alphabet is not symmetric either)
MaxRuleLen == 6
MaxRuleStep == 1
\* interval lists handed to the leap rule: length 0..MaxLeapLen over -MaxLeap..MaxLeap
MaxLeapLen == 4
MaxLeap == 5

(***************************************************************************)
(* Python built-ins used by the code                                       *)
(***************************************************************************)
Abs(x) == IF x < 0 THEN -x ELSE x

Range(s) == {s[i] : i \in DOMAIN s}

RECURSIVE SumSeq(_)
SumSeq(s) == IF s = <<>> THEN 0 ELSE Head(s) + SumSeq(Tail(s))

Count(s, v) == Cardinality({i \in DOMAIN s : s[i] = v})

MaxOf(s) == CHOOSE m \in Range(s) : \A x \in Range(s) : x <= m

MinOf(s) == CHOOSE m \in Range(s) : \A x \in Range(s) : m <= x

Reverse(s) == [i \in 1..Len(s) |-> s[Len(s) + 1 - i]]

\* s[a:b] of Python with 0-based a, b already clipped to 0..len(s)
Slice(s, a, b) == IF b <= a THEN <<>> ELSE SubSeq(s, a + 1, b)

DegreesPerOctave == 7

(***************************************************************************)
(* cantus.py: class Cantus, as operators on its one field, intervals       *)
(***************************************************************************)
length(intervals) == Len(intervals) + 1

RECURSIVE PitchesLoop(_, _)
PitchesLoop(calculated_pitches, rest) ==
    IF rest = <<>> THEN calculated_pitches
    ELSE PitchesLoop(Append(calculated_pitches,
                            calculated_pitches[Len(calculated_pitches)] + Head(rest)),
                     Tail(rest))

pitches(intervals) == PitchesLoop(<<0>>, intervals)

range(intervals) == MaxOf(pitches(intervals)) - MinOf(pitches(intervals))

pitch_to_degree(height) == height % DegreesPerOctave

degrees(intervals) ==
    LET p == pitches(intervals) IN [i \in 1..Len(p) |-> pitch_to_degree(p[i])]

\* a bug the extremum test could have: plateaus counted as extrema
IsExtremumNonStrict(prev, current, next) ==
    (current >= prev /\ current >= next) \/ (current <= prev /\ current <= next)

IsExtremum(prev, current, next) ==
    (current > prev /\ current > next) \/ (current < prev /\ current < next)

\* the loop "for i in range(1, len(pitches) - 1)": i is the 1-based index here
RECURSIVE ExtremesLoop(_, _, _)
ExtremesLoop(p, i, extremes_list) ==
    IF i > Len(p) - 1 THEN extremes_list
    ELSE ExtremesLoop(p, i + 1,
            IF IsExtremum(p[i - 1], p[i], p[i + 1])
            THEN Append(extremes_list, p[i])
            ELSE extremes_list)

\* a bug extremes could have: the last pitch is not appended
extremes_without_last(intervals) ==
    LET p == pitches(intervals)
    IN ExtremesLoop(p, 2, <<p[1]>>)

extremes(intervals) ==
    LET p == pitches(intervals)
    IN Append(ExtremesLoop(p, 2, <<p[1]>>), p[Len(p)])

extreme_degrees(intervals) ==
    LET e == extremes(intervals) IN [i \in 1..Len(e) |-> pitch_to_degree(e[i])]

LeapMin == 3

\* _get_segments_until_leaps: the prefixes ending at each interval with abs >= 3, in order
RECURSIVE SegmentsLoop(_, _, _)
SegmentsLoop(interval_list, i, acc) ==
    IF i > Len(interval_list) THEN acc
    ELSE SegmentsLoop(interval_list, i + 1,
            IF Abs(interval_list[i]) >= LeapMin
            THEN Append(acc, SubSeq(interval_list, 1, i))
            ELSE acc)

get_segments_until_leaps(interval_list) == SegmentsLoop(interval_list, 1, <<>>)

\* a bug the property could have: the reversed list is left out
get_segments_until_leaps_only(intervals) == get_segments_until_leaps(intervals)

get_segments_until_and_after_leaps(intervals) ==
    get_segments_until_leaps(intervals) \o get_segments_until_leaps(Reverse(intervals))

(***************************************************************************)
(* general_rules.py                                                        *)
(***************************************************************************)
MaxRange == 9

has_range_valid(intervals) == range(intervals) <= MaxRange

\* intervals[-1] / intervals[-2] raise IndexError on a too short list; "and" short-circuits
has_stepwise_final_raises(intervals) ==
    \/ Len(intervals) = 0
    \/ Len(intervals) = 1 /\ Abs(intervals[1]) = 1

has_stepwise_final(intervals) ==
    /\ Len(intervals) >= 1
    /\ Abs(intervals[Len(intervals)]) = 1
    /\ Len(intervals) >= 2
    /\ Abs(intervals[Len(intervals) - 1]) = 1

LinearRun == 5

RECURSIVE LinearLoop(_, _, _)
LinearLoop(intervals, i, count) ==
    IF i > Len(intervals) THEN TRUE
    ELSE IF intervals[i] = intervals[i - 1]
         THEN IF count + 1 >= LinearRun THEN FALSE
              ELSE LinearLoop(intervals, i + 1, count + 1)
         ELSE LinearLoop(intervals, i + 1, 1)

\* a bug the counter could have: the first interval of a run is not counted
is_not_too_linear_from_zero(intervals) == LinearLoop(intervals, 2, 0)

is_not_too_linear(intervals) == LinearLoop(intervals, 2, 1)

opp(prev, leap) == leap * prev < 0

same(prev, leap) == prev * leap > 0

\* the three cases of the match statement; the float comparisons are doubled:
\* abs(prev1) < abs(leap / 2) - 0.5  <=>  2 * |prev1| < |leap| - 1
\* abs(prev1 + prev2) < abs(leap / 2)  <=>  2 * |prev1 + prev2| < |leap|
SegmentCase1(segment) ==
    LET n == Len(segment) IN
    /\ n >= 2
    /\ same(segment[n - 1], segment[n])

\* a bug the second case could have: the half-step tolerance is left out
SegmentCase2NoTolerance(segment) ==
    LET n == Len(segment) IN
    /\ n >= 3
    /\ opp(segment[n - 1], segment[n])
    /\ same(segment[n - 2], segment[n])
    /\ 2 * Abs(segment[n - 1]) < Abs(segment[n])

SegmentCase2(segment) ==
    LET n == Len(segment) IN
    /\ n >= 3
    /\ opp(segment[n - 1], segment[n])
    /\ same(segment[n - 2], segment[n])
    /\ 2 * Abs(segment[n - 1]) < Abs(segment[n]) - 1

SegmentCase3(segment) ==
    LET n == Len(segment) IN
    /\ n >= 4
    /\ opp(segment[n - 1], segment[n])
    /\ opp(segment[n - 2], segment[n])
    /\ same(segment[n - 3], segment[n])
    /\ 2 * Abs(segment[n - 1] + segment[n - 2]) < Abs(segment[n])

SegmentRejected(segment) ==
    SegmentCase1(segment) \/ SegmentCase2(segment) \/ SegmentCase3(segment)

RECURSIVE LeapsLoop(_, _)
LeapsLoop(segments, k) ==
    IF k > Len(segments) THEN TRUE
    ELSE IF SegmentRejected(segments[k]) THEN FALSE
    ELSE LeapsLoop(segments, k + 1)

are_leaps_prepared_and_filled(intervals) ==
    LeapsLoop(get_segments_until_and_after_leaps(intervals), 1)

check_culmination_rule(intervals) ==
    LET pitch_list == pitches(intervals)
        max_pitch == MaxOf(pitch_list)
        min_pitch == MinOf(pitch_list)
    IN IF \A i \in DOMAIN pitch_list : pitch_list[i] >= 0
       THEN Count(pitch_list, max_pitch) = 1
       ELSE IF \A i \in DOMAIN pitch_list : pitch_list[i] <= 0
       THEN Count(pitch_list, min_pitch) = 1
       ELSE Count(pitch_list, max_pitch) = 1 /\ Count(pitch_list, min_pitch) = 1

MinExtremes == 4

check_direction_changes(intervals) == Len(extremes(intervals)) >= MinExtremes

max_repeats == 3

\* first loop: pitch_list[i] == pitch_list[i + 2] == pitch_list[i + 4]
AlternatingRepeat(pitch_list) ==
    \E i \in 1..(Len(pitch_list) - 4) :
        pitch_list[i] = pitch_list[i + 2] /\ pitch_list[i + 2] = pitch_list[i + 4]

\* second loop: the running count of the pitch just read reaches max_repeats
RECURSIVE CountLoop(_, _)
CountLoop(pitch_list, k) ==
    IF k > Len(pitch_list) THEN TRUE
    ELSE IF Count(SubSeq(pitch_list, 1, k), pitch_list[k]) >= max_repeats THEN FALSE
    ELSE CountLoop(pitch_list, k + 1)

\* a bug the rule could have: the whole-sequence count is left out
no_pitch_repeats_alternating_only(intervals) == ~AlternatingRepeat(pitches(intervals))

no_pitch_repeats(intervals) ==
    LET pitch_list == pitches(intervals)
    IN IF AlternatingRepeat(pitch_list) THEN FALSE ELSE CountLoop(pitch_list, 1)

has_no_pattern(intervals) ==
    LET p == pitches(intervals)
        max_pattern_length == Len(p) \div 2
    IN \A pattern_len \in 1..max_pattern_length :
         \A i \in 0..(Len(p) - 2 * pattern_len) :
            Slice(p, i, i + pattern_len) # Slice(p, i + pattern_len, i + 2 * pattern_len)

SeventhOutline == 6

seventh_rule_satisfied(intervals) ==
    LET e == extremes(intervals)
    IN \A step \in 1..(Len(e) - 1) :
         \A i \in 1..(Len(e) - step) : Abs(e[i] - e[i + step]) # SeventhOutline

(***************************************************************************)
(* mode_rules.py                                                           *)
(***************************************************************************)
forbidden_set == {-8, -4, -1, 3, 6}

group_a == {-8, -1, 6}

group_b == {-4, 3}

check_major_forbidden_leaps(intervals) ==
    LET pitch_list == pitches(intervals)
        e == extremes(intervals)
        has_a == \E i \in DOMAIN e : e[i] \in group_a
        has_b == \E i \in DOMAIN e : e[i] \in group_b
    IN /\ \A i \in 1..(Len(pitch_list) - 1) :
             ~(pitch_list[i] \in forbidden_set /\ pitch_list[i + 1] \in forbidden_set)
       /\ \A i \in 1..(Len(pitch_list) - 2) :
             ~(pitch_list[i] \in forbidden_set /\ pitch_list[i + 2] \in forbidden_set)
       /\ ~(has_a /\ has_b)

(***************************************************************************)
(* general_rules.py: is_valid_melody builds the whole list before all(),   *)
(* so every predicate is evaluated and an IndexError of one propagates     *)
(***************************************************************************)
is_valid_melody_raises(intervals) == has_stepwise_final_raises(intervals)

is_valid_melody(intervals) ==
    /\ has_range_valid(intervals)
    /\ has_stepwise_final(intervals)
    /\ is_not_too_linear(intervals)
    /\ are_leaps_prepared_and_filled(intervals)
    /\ check_culmination_rule(intervals)
    /\ check_direction_changes(intervals)
    /\ no_pitch_repeats(intervals)
    /\ has_no_pattern(intervals)
    /\ seventh_rule_satisfied(intervals)
    /\ check_major_forbidden_leaps(intervals)

(***************************************************************************)
(* converter.py                                                            *)
(***************************************************************************)
standard_to_taneyev(n) ==
    IF Abs(n) = 1 THEN 0 ELSE n - (IF n > 0 THEN 1 ELSE -1)

\* a bug taneyev_to_standard could have: the sign of n is not looked at
taneyev_to_standard_unsigned(n) ==
    IF n = 0 THEN 1 ELSE n + 1

taneyev_to_standard(n) ==
    IF n = 0 THEN 1 ELSE n + (IF n > 0 THEN 1 ELSE -1)

\* the loop "for i in range(1, n - 1)" with its if / elif; i is the 1-based index here
RECURSIVE LocalExtremaLoop(_, _, _)
LocalExtremaLoop(taneyev_pitches, i, taneyev_extrema) ==
    IF i > Len(taneyev_pitches) - 1 THEN taneyev_extrema
    ELSE LocalExtremaLoop(taneyev_pitches, i + 1,
            IF /\ taneyev_pitches[i] > taneyev_pitches[i - 1]
               /\ taneyev_pitches[i] > taneyev_pitches[i + 1]
            THEN Append(taneyev_extrema, taneyev_pitches[i])
            ELSE IF /\ taneyev_pitches[i] < taneyev_pitches[i - 1]
                    /\ taneyev_pitches[i] < taneyev_pitches[i + 1]
            THEN Append(taneyev_extrema, taneyev_pitches[i])
            ELSE taneyev_extrema)

\* defined on a non-empty list (taneyev_pitches[0] raises IndexError on an empty one)
find_local_extrema(taneyev_pitches) ==
    Append(LocalExtremaLoop(taneyev_pitches, 2, <<taneyev_pitches[1]>>),
           taneyev_pitches[Len(taneyev_pitches)])

convert_pitch_to_degree(pitch) ==
    IF pitch # 0 THEN ((pitch - 1) % DegreesPerOctave) + 1 ELSE 1

convert_pitches_to_degrees(taneyev_pitches) ==
    [i \in 1..Len(taneyev_pitches) |-> convert_pitch_to_degree(taneyev_pitches[i])]

(***************************************************************************)
(* generator.py: the pure parts                                            *)
(***************************************************************************)
UnitSteps(combo) == Count(combo, 1) + Count(combo, -1)

\* a bug the pre-filter could have: the closure test is missing
ComboFilterNoSum(combo, step_count_threshold) ==
    UnitSteps(combo) >= step_count_threshold

\* the pre-filter of generate_combinations
ComboFilter(combo, step_count_threshold) ==
    SumSeq(combo) = 0 /\ UnitSteps(combo) >= step_count_threshold

\* a bug generate_combinations could have: itertools.combinations, no element twice
combinations_without_replacement(elems, r) ==
    {c \in [1..r -> elems] : \A i \in 1..(r - 1) : c[i] < c[i + 1]}

\* combinations_with_replacement(elements, r): one tuple per multiset of size r.  The tuple
\* follows the iteration order of the frozenset; the ascending tuple stands for the multiset
\* (process_combo reads a combination only through set(permutations(combo))).
combinations_with_replacement(elems, r) ==
    {c \in [1..r -> elems] : \A i \in 1..(r - 1) : c[i] <= c[i + 1]}

\* combinations_with_replacement raises ValueError("r must be non-negative")
generate_combinations_raises(melody_length) == melody_length - 1 < 0

\* a bug the enumeration could have: the pre-filter is left to a later stage
generate_combinations_unfiltered(elems, melody_length, step_count_threshold) ==
    combinations_with_replacement(elems, melody_length - 1)

generate_combinations(elems, melody_length, step_count_threshold) ==
    {combo \in combinations_with_replacement(elems, melody_length - 1) :
        ComboFilter(combo, step_count_threshold)}

filter_combinations(combos) == combos

\* perm[-1] in {1, -1} and perm[-2] in {1, -1}: IndexError on a too short tuple
check_ending_steps_raises(perm) ==
    \/ Len(perm) = 0
    \/ Len(perm) = 1 /\ perm[1] \in {1, -1}

check_ending_steps(perm) ==
    /\ Len(perm) >= 1
    /\ perm[Len(perm)] \in {1, -1}
    /\ Len(perm) >= 2
    /\ perm[Len(perm) - 1] \in {1, -1}

\* set(permutations(combo)): the distinct orderings of the multiset
permutations(combo) ==
    {p \in [1..Len(combo) -> Range(combo)] :
        \A v \in Range(combo) : Count(p, v) = Count(combo, v)}

process_combo_raises(combo) ==
    \E perm \in permutations(combo) : check_ending_steps_raises(perm)

process_combo(combo) ==
    {perm \in permutations(combo) : check_ending_steps(perm)}

process_perm_raises(taneyev_intervals) == is_valid_melody_raises(taneyev_intervals)

\* None is <<>>, a returned interval list l is <<l>>
process_perm(taneyev_intervals) ==
    IF is_valid_melody(taneyev_intervals) THEN <<taneyev_intervals>> ELSE <<>>

\* the tuples of S, which have one length and agree before position k, in lexicographic order
RECURSIVE LexList(_, _)
LexList(S, k) ==
    IF S = {} THEN <<>>
    ELSE LET x == CHOOSE y \in S : TRUE IN
         IF k > Len(x) THEN <<x>>
         ELSE LET lo == CHOOSE v \in {y[k] : y \in S} : \A y \in S : v <= y[k]
              IN LexList({y \in S : y[k] = lo}, k + 1) \o LexList({y \in S : y[k] > lo}, k)

\* list(a_set) of a set of tuples of one length: Python iterates a set in an order that is
\* fixed for the run and unspecified; one order (the lexicographic one) stands for it
SetToSeq(S) == LexList(S, 1)

RECURSIVE Flatten(_)
Flatten(ss) == IF ss = <<>> THEN <<>> ELSE Head(ss) \o Flatten(Tail(ss))

UnionAll(ss) == UNION {ss[i] : i \in DOMAIN ss}

(***************************************************************************)
(* multiprocessing.Pool.map as generator.py uses it: the iterable is cut   *)
(* into chunks of ceil(len / (4 * pool size)) items, an idle worker takes  *)
(* the next chunk, and map returns when every chunk has been answered: the *)
(* results in task order, or the exception of a chunk that raised.         *)
(* process_combo and process_perm are pure, so what a worker answers for a *)
(* chunk is fixed when the chunk is queued: it is evaluated once, there    *)
(* (answers), and a worker's completion publishes it.                      *)
(***************************************************************************)
Workers == 1..NumWorkers

ChunksPerWorker == 4

ChunkSize(n) ==
    LET q == n \div (NumWorkers * ChunksPerWorker)
        extra == n % (NumWorkers * ChunksPerWorker)
    IN IF extra # 0 THEN q + 1 ELSE q

Chunks(items) ==
    LET n == Len(items)
        cs == ChunkSize(n)
        count == IF n = 0 THEN 0 ELSE (n + cs - 1) \div cs
    IN [c \in 1..count |->
          SubSeq(items, (c - 1) * cs + 1, IF c * cs < n THEN c * cs ELSE n)]

Pending == [st |-> "pending", val |-> <<>>]

\* mapstar in a worker: list(map(process_combo, chunk))
RunComboChunk(chunk) ==
    IF \E i \in DOMAIN chunk : process_combo_raises(chunk[i])
    THEN [st |-> "raised", val |-> <<>>]
    ELSE [st |-> "returned", val |-> [i \in DOMAIN chunk |-> process_combo(chunk[i])]]

\* mapstar in a worker: list(map(process_perm, chunk))
RunPermChunk(chunk) ==
    IF \E i \in DOMAIN chunk : process_perm_raises(chunk[i])
    THEN [st |-> "raised", val |-> <<>>]
    ELSE [st |-> "returned", val |-> [i \in DOMAIN chunk |-> process_perm(chunk[i])]]

\* a bug the pool could have: a chunk's exception is swallowed
MapRaisedSwallowed(res) == FALSE

MapRaised(res) == \E i \in DOMAIN res : res[i].st = "raised"

\* the list pool.map returns: the chunks' answers, in task order
MapResults(res) == Flatten([i \in DOMAIN res |-> res[i].val])

\* generate_valid_permutations after the pool: set.update per result, then list(...)
MergePermutations(res) == SetToSeq(UnionAll(MapResults(res)))

\* generate_valid_melodies after the pool: [m for m in melodies if m is not None]
CollectMelodies(res) == Flatten(MapResults(res))

(***************************************************************************)
(* The pipeline of main() as a state machine                               *)
(***************************************************************************)
VARIABLES
    elements,              \* the interval alphabet
    melody_length,         \* MELODY_LENGTH
    step_count_threshold,  \* STEP_COUNT_THRESHOLD
    stage,                 \* where main() is
    combinations,          \* what generate_combinations returned
    queue,                 \* the chunks of the running pool.map
    answers,               \* chunk -> what the worker function makes of it
    next_task,             \* index of the next chunk to hand out
    running,               \* worker -> the chunk it works on, 0 when idle
    combo_results,         \* chunk -> answer, stage 2
    perm_results,          \* chunk -> answer, stage 3
    valid_permutations,    \* what generate_valid_permutations returned
    valid_melodies,        \* what generate_valid_melodies returned
    error,                 \* the exception main() ended with, "none" otherwise
    cantus_intervals,      \* Cantus.intervals of a Cantus built directly
    cantus_call,           \* the property of it that was read, "none" before
    cantus_result,         \* what the property returned
    conv_n,                \* integer argument of the interval conversions
    conv_pitches,          \* pitch list argument of convert_pitches_to_degrees
    conv_call,             \* the converter function that was called last, "none" before
    conv_result            \* what it returned

pipeline_vars == <<elements, melody_length, step_count_threshold, stage, combinations, queue,
                   answers, next_task, running, combo_results, perm_results,
                   valid_permutations, valid_melodies, error>>

cantus_vars == <<cantus_intervals, cantus_call, cantus_result>>

conv_vars == <<conv_n, conv_pitches, conv_call, conv_result>>

vars == <<pipeline_vars, cantus_vars, conv_vars>>

inputs == <<elements, melody_length, step_count_threshold>>

Alphabets ==
    {((-k)..k) \ {0} : k \in 0..MaxInterval} \cup {((-k)..(k - 1)) \ {0} : k \in 1..MaxInterval}

Idle == [w \in Workers |-> 0]

\* no Cantus has been built outside the pipeline
CantusIdle ==
    /\ cantus_intervals = <<>>
    /\ cantus_call = "none"
    /\ cantus_result = <<>>

\* no converter function has been called
ConvIdle ==
    /\ conv_n = 0
    /\ conv_pitches = <<>>
    /\ conv_call = "none"
    /\ conv_result = <<>>

\* main() has not been started
PipelineIdle ==
    /\ elements = {}
    /\ melody_length = 0
    /\ step_count_threshold = 0
    /\ stage = "idle"
    /\ combinations = {}
    /\ queue = <<>>
    /\ answers = <<>>
    /\ next_task = 1
    /\ running = Idle
    /\ combo_results = <<>>
    /\ perm_results = <<>>
    /\ valid_permutations = <<>>
    /\ valid_melodies = <<>>
    /\ error = "none"

Init ==
    /\ CantusIdle
    /\ ConvIdle
    /\ elements \in Alphabets
    /\ melody_length \in 0..MaxMelodyLength
    /\ step_count_threshold \in 0..MaxThreshold
    /\ stage = "enumerate"
    /\ combinations = {}
    /\ queue = <<>>
    /\ answers = <<>>
    /\ next_task = 1
    /\ running = Idle
    /\ combo_results = <<>>
    /\ perm_results = <<>>
    /\ valid_permutations = <<>>
    /\ valid_melodies = <<>>
    /\ error = "none"

\* main(): combinations = generate_combinations(elements, MELODY_LENGTH, STEP_COUNT_THRESHOLD)
GenerateCombinations ==
    /\ stage = "enumerate"
    /\ IF generate_combinations_raises(melody_length)
       THEN /\ stage' = "error"
            /\ error' = "ValueError"
            /\ UNCHANGED combinations
       ELSE /\ stage' = "submit_combos"
            /\ combinations' =
                 generate_combinations(elements, melody_length, step_count_threshold)
            /\ UNCHANGED error
    /\ UNCHANGED <<cantus_vars, conv_vars, inputs, queue, answers, next_task, running, combo_results, perm_results,
                   valid_permutations, valid_melodies>>

\* generate_valid_permutations: pool.map(process_combo, combinations) is called
SubmitCombos ==
    /\ stage = "submit_combos"
    /\ stage' = "permute"
    /\ queue' = Chunks(SetToSeq(filter_combinations(combinations)))
    /\ answers' = [c \in DOMAIN queue' |-> RunComboChunk(queue'[c])]
    /\ combo_results' = [c \in DOMAIN queue' |-> Pending]
    /\ next_task' = 1
    /\ running' = Idle
    /\ UNCHANGED <<cantus_vars, conv_vars, inputs, combinations, perm_results, valid_permutations,
                   valid_melodies, error>>

\* an idle worker takes the next chunk off the task queue
TakeTask(w, st) ==
    /\ stage = st
    /\ running[w] = 0
    /\ next_task <= Len(queue)
    /\ running' = [running EXCEPT ![w] = next_task]
    /\ next_task' = next_task + 1

TakeCombos(w) ==
    /\ TakeTask(w, "permute")
    /\ UNCHANGED <<cantus_vars, conv_vars, inputs, stage, combinations, queue, answers, combo_results, perm_results,
                   valid_permutations, valid_melodies, error>>

FinishCombos(w) ==
    /\ stage = "permute"
    /\ running[w] # 0
    /\ combo_results' = [combo_results EXCEPT ![running[w]] = answers[running[w]]]
    /\ running' = [running EXCEPT ![w] = 0]
    /\ UNCHANGED <<cantus_vars, conv_vars, inputs, stage, combinations, queue, answers, next_task, perm_results,
                   valid_permutations, valid_melodies, error>>

\* a bug the pool could have: map returns once every chunk is handed out, not answered
MapDoneNoDrain == next_task > Len(queue)

\* pool.map blocks until every chunk has been handed out and answered
MapDone == next_task > Len(queue) /\ \A w \in Workers : running[w] = 0

\* pool.map returns or raises; generate_valid_permutations merges and returns
ReturnPermutations ==
    /\ stage = "permute"
    /\ MapDone
    /\ IF MapRaised(combo_results)
       THEN /\ stage' = "error"
            /\ error' = "IndexError"
            /\ UNCHANGED valid_permutations
       ELSE /\ stage' = "submit_perms"
            /\ valid_permutations' = MergePermutations(combo_results)
            /\ UNCHANGED error
    /\ UNCHANGED <<cantus_vars, conv_vars, inputs, combinations, queue, answers, next_task, running, combo_results,
                   perm_results, valid_melodies>>

\* generate_valid_melodies: pool.map(process_perm, permutations) is called
SubmitPerms ==
    /\ stage = "submit_perms"
    /\ stage' = "validate"
    /\ queue' = Chunks(valid_permutations)
    /\ answers' = [c \in DOMAIN queue' |-> RunPermChunk(queue'[c])]
    /\ perm_results' = [c \in DOMAIN queue' |-> Pending]
    /\ next_task' = 1
    /\ running' = Idle
    /\ UNCHANGED <<cantus_vars, conv_vars, inputs, combinations, combo_results, valid_permutations,
                   valid_melodies, error>>

TakePerms(w) ==
    /\ TakeTask(w, "validate")
    /\ UNCHANGED <<cantus_vars, conv_vars, inputs, stage, combinations, queue, answers, combo_results, perm_results,
                   valid_permutations, valid_melodies, error>>

FinishPerms(w) ==
    /\ stage = "validate"
    /\ running[w] # 0
    /\ perm_results' = [perm_results EXCEPT ![running[w]] = answers[running[w]]]
    /\ running' = [running EXCEPT ![w] = 0]
    /\ UNCHANGED <<cantus_vars, conv_vars, inputs, stage, combinations, queue, answers, next_task, combo_results,
                   valid_permutations, valid_melodies, error>>

\* pool.map returns or raises; generate_valid_melodies drops the None entries and returns
ReturnMelodies ==
    /\ stage = "validate"
    /\ MapDone
    /\ IF MapRaised(perm_results)
       THEN /\ stage' = "error"
            /\ error' = "IndexError"
            /\ UNCHANGED valid_melodies
       ELSE /\ stage' = "done"
            /\ valid_melodies' = CollectMelodies(perm_results)
            /\ UNCHANGED error
    /\ UNCHANGED <<cantus_vars, conv_vars, inputs, combinations, queue, answers, next_task, running, combo_results,
                   perm_results, valid_permutations>>

Next ==
    \/ GenerateCombinations
    \/ SubmitCombos
    \/ \E w \in Workers : TakeCombos(w)
    \/ \E w \in Workers : FinishCombos(w)
    \/ ReturnPermutations
    \/ SubmitPerms
    \/ \E w \in Workers : TakePerms(w)
    \/ \E w \in Workers : FinishPerms(w)
    \/ ReturnMelodies

Spec == Init /\ [][Next]_vars

(***************************************************************************)
(* A Cantus built from an interval list, and one of its properties read    *)
(***************************************************************************)
RECURSIVE SeqsUpTo(_, _)
SeqsUpTo(S, n) ==
    IF n = 0 THEN {<<>>} ELSE SeqsUpTo(S, n - 1) \cup [1..n -> S]

InitCantus ==
    /\ PipelineIdle
    /\ ConvIdle
    /\ cantus_intervals \in SeqsUpTo((-MaxCantusStep)..MaxCantusStep, MaxCantusLen)
    /\ cantus_call = "none"
    /\ cantus_result = <<>>

\* a property read returns the scalar v as <<v>> and a list as itself
Read(name, value) ==
    /\ cantus_call = "none"
    /\ cantus_call' = name
    /\ cantus_result' = value
    /\ UNCHANGED <<cantus_intervals, pipeline_vars, conv_vars>>

ReadLength == Read("length", <<length(cantus_intervals)>>)

ReadRange == Read("range", <<range(cantus_intervals)>>)

ReadPitches == Read("pitches", pitches(cantus_intervals))

ReadDegrees == Read("degrees", degrees(cantus_intervals))

ReadExtremes == Read("extremes", extremes(cantus_intervals))

ReadExtremeDegrees == Read("extreme_degrees", extreme_degrees(cantus_intervals))

\* converter.find_local_extrema on the pitch list of the Cantus
CallFindLocalExtrema ==
    Read("find_local_extrema", find_local_extrema(pitches(cantus_intervals)))

NextCantus ==
    \/ ReadLength
    \/ ReadRange
    \/ ReadPitches
    \/ ReadDegrees
    \/ ReadExtremes
    \/ ReadExtremeDegrees
    \/ CallFindLocalExtrema

SpecCantus == InitCantus /\ [][NextCantus]_vars

(***************************************************************************)
(* A rule predicate, or the stage 3 worker function, called on a Cantus    *)
(***************************************************************************)
RuleIntervals == ((-MaxRuleStep)..(MaxRuleStep + 1)) \ {0}

InitRules ==
    /\ PipelineIdle
    /\ ConvIdle
    /\ cantus_intervals \in SeqsUpTo(RuleIntervals, MaxRuleLen)
    /\ cantus_call = "none"
    /\ cantus_result = <<>>

CallIsNotTooLinear == Read("is_not_too_linear", <<is_not_too_linear(cantus_intervals)>>)

CallNoPitchRepeats == Read("no_pitch_repeats", <<no_pitch_repeats(cantus_intervals)>>)

\* is_valid_melody(Cantus(intervals)): a verdict, or the IndexError of has_stepwise_final
CallIsValidMelody ==
    IF is_valid_melody_raises(cantus_intervals)
    THEN Read("IndexError", <<>>)
    ELSE Read("is_valid_melody", <<is_valid_melody(cantus_intervals)>>)

\* process_perm(intervals): None is <<>>, the list l is <<l>>
CallProcessPerm ==
    IF process_perm_raises(cantus_intervals)
    THEN Read("IndexError", <<>>)
    ELSE Read("process_perm", process_perm(cantus_intervals))

NextRules ==
    \/ CallIsNotTooLinear
    \/ CallNoPitchRepeats
    \/ CallIsValidMelody
    \/ CallProcessPerm

SpecRules == InitRules /\ [][NextRules]_vars

(***************************************************************************)
(* The leap rule called on a Cantus, and its segment list read             *)
(***************************************************************************)
InitLeaps ==
    /\ PipelineIdle
    /\ ConvIdle
    /\ cantus_intervals \in SeqsUpTo((-MaxLeap)..MaxLeap, MaxLeapLen)
    /\ cantus_call = "none"
    /\ cantus_result = <<>>

ReadSegments ==
    Read("get_segments_until_and_after_leaps",
         get_segments_until_and_after_leaps(cantus_intervals))

CallAreLeapsPreparedAndFilled ==
    Read("are_leaps_prepared_and_filled",
         <<are_leaps_prepared_and_filled(cantus_intervals)>>)

NextLeaps ==
    \/ ReadSegments
    \/ CallAreLeapsPreparedAndFilled

SpecLeaps == InitLeaps /\ [][NextLeaps]_vars

(***************************************************************************)
(* The converter functions called on an integer or on a pitch list         *)
(***************************************************************************)
InitConverter ==
    /\ PipelineIdle
    /\ CantusIdle
    /\ \/ conv_n \in (-MaxStandard)..MaxStandard /\ conv_pitches = <<>>
       \/ conv_n = 0 /\ conv_pitches \in SeqsUpTo((-MaxPitch)..MaxPitch, MaxPitchListLen)
    /\ conv_call = "none"
    /\ conv_result = <<>>

\* standard_to_taneyev(n), as melody_to_intervals calls it on a directed generic interval
CallStandardToTaneyev ==
    /\ conv_call = "none"
    /\ conv_call' = "standard_to_taneyev"
    /\ conv_result' = <<standard_to_taneyev(conv_n)>>
    /\ UNCHANGED <<conv_n, conv_pitches, pipeline_vars, cantus_vars>>

\* taneyev_to_standard on the interval just converted, as intervals_to_melody calls it
CallTaneyevToStandard ==
    /\ conv_call = "standard_to_taneyev"
    /\ conv_call' = "taneyev_to_standard"
    /\ conv_result' = <<taneyev_to_standard(conv_result[1])>>
    /\ UNCHANGED <<conv_n, conv_pitches, pipeline_vars, cantus_vars>>

CallConvertPitchesToDegrees ==
    /\ conv_call = "none"
    /\ conv_call' = "convert_pitches_to_degrees"
    /\ conv_result' = convert_pitches_to_degrees(conv_pitches)
    /\ UNCHANGED <<conv_n, conv_pitches, pipeline_vars, cantus_vars>>

NextConverter ==
    \/ CallStandardToTaneyev
    \/ CallTaneyevToStandard
    \/ CallConvertPitchesToDegrees

SpecConverter == InitConverter /\ [][NextConverter]_vars

(***************************************************************************)
(* Properties of the pipeline (specification Spec)                         *)
(***************************************************************************)
UnitMagnitude(s) == Cardinality({i \in DOMAIN s : Abs(s[i]) = 1})

NoDuplicates(s) == \A i, j \in DOMAIN s : i # j => s[i] # s[j]

\* the sequences the contract names: over the alphabet, closed, enough steps, valid
Contract(elems, n, t) ==
    {s \in [1..(n - 1) -> elems] :
        SumSeq(s) = 0 /\ UnitMagnitude(s) >= t /\ is_valid_melody(s)}

\* C1: for melody_length >= 3 the pipeline returns, and the returned list holds exactly the
\* sequences of length melody_length - 1 over the alphabet that sum to 0, have at least
\* step_count_threshold intervals of magnitude 1 and pass is_valid_melody.
C1_Exhaustive ==
    melody_length >= 3 =>
        /\ stage # "error"
        /\ stage = "done" =>
              Range(valid_melodies) =
                  Contract(elements, melody_length, step_count_threshold)

\* the pipeline has accepted several melodies while rejecting closed candidates
C1_Witness ==
    /\ stage = "done"
    /\ melody_length >= 3
    /\ Len(valid_melodies) >= 2
    /\ Len(valid_permutations) > Len(valid_melodies)

ClosedWithSteps(s) == SumSeq(s) = 0 /\ UnitMagnitude(s) >= step_count_threshold

\* C2: every sequence generate_valid_permutations returned, and every sequence
\* generate_valid_melodies returned, sums to 0 and has at least step_count_threshold
\* intervals of magnitude 1.
C2_ClosureAndSteps ==
    /\ stage \in {"submit_perms", "validate", "done"} =>
          \A i \in DOMAIN valid_permutations : ClosedWithSteps(valid_permutations[i])
    /\ stage = "done" =>
          \A i \in DOMAIN valid_melodies : ClosedWithSteps(valid_melodies[i])

\* melodies were accepted under a threshold that the closing steps alone do not meet
C2_Witness ==
    /\ stage = "done"
    /\ step_count_threshold >= 3
    /\ valid_melodies # <<>>

\* what the worker functions give when applied one after the other, with no pool
SequentialPermutations ==
    UNION {process_combo(combo) :
             combo \in generate_combinations(elements, melody_length, step_count_threshold)}

SequentialMelodies == {perm \in SequentialPermutations : is_valid_melody(perm)}

\* C3: whatever worker took which chunk and in whatever order the chunks were answered,
\* the permutation list and the accepted list hold what the inputs alone determine, and
\* neither holds a sequence twice.
C3_ScheduleIndependent ==
    /\ stage = "submit_perms" =>
          /\ Range(valid_permutations) = SequentialPermutations
          /\ NoDuplicates(valid_permutations)
    /\ stage = "done" =>
          /\ Range(valid_melodies) = SequentialMelodies
          /\ NoDuplicates(valid_melodies)
          /\ NoDuplicates(valid_permutations)

\* a later chunk has been answered while an earlier one is still with the other worker
C3_Witness ==
    /\ stage = "validate"
    /\ \E i, j \in DOMAIN perm_results :
          /\ i < j
          /\ running[2] = i
          /\ perm_results[i].st = "pending"
          /\ perm_results[j].st = "returned"
          /\ \E k \in DOMAIN perm_results[j].val : perm_results[j].val[k] # <<>>

InvalidParameters == melody_length < 2 \/ elements = {}

\* C4: with melody_length < 2 or an empty alphabet the pipeline produces no enumeration
\* result and ends in the parameter error (ValueError is the only one the code has); it
\* neither returns a list nor ends in another exception.
C4_FailFast ==
    InvalidParameters =>
        /\ stage \in {"enumerate", "error"}
        /\ stage = "error" => error = "ValueError"

\* C5: once a chunk of a pool.map has raised, that stage returns no collection: the
\* pipeline stays in the stage until the pool has drained and then ends in the error.
C5_WorkerFailureSurfaces ==
    /\ (\E i \in DOMAIN combo_results : combo_results[i].st = "raised") =>
          /\ stage \in {"permute", "error"}
          /\ valid_permutations = <<>>
          /\ valid_melodies = <<>>
          /\ stage = "error" => error = "IndexError"
    /\ (\E i \in DOMAIN perm_results : perm_results[i].st = "raised") =>
          /\ stage \in {"validate", "error"}
          /\ valid_melodies = <<>>
          /\ stage = "error" => error = "IndexError"

\* a process_combo chunk raised and main() ended with its exception
C5_Witness ==
    /\ stage = "error"
    /\ error = "IndexError"
    /\ \E i \in DOMAIN combo_results : combo_results[i].st = "raised"

\* C6: with melody_length < 3 the pipeline never ends in an exception, and what it
\* returns is the empty list.
C6_ShortMelodyEmpty ==
    melody_length < 3 =>
        /\ stage # "error"
        /\ stage = "done" => valid_melodies = <<>>

(***************************************************************************)
(* Properties of the Cantus views (specification SpecCantus)               *)
(***************************************************************************)
\* the interior positions of p that are strictly above or strictly below both neighbours
StrictInterior(p) ==
    {i \in 2..(Len(p) - 1) :
        \/ p[i] > p[i - 1] /\ p[i] > p[i + 1]
        \/ p[i] < p[i - 1] /\ p[i] < p[i + 1]}

NthOf(I, k) == CHOOSE i \in I : Cardinality({j \in I : j < i}) = k - 1

EndpointsAndStrictExtrema(e, p) ==
    LET I == StrictInterior(p)
    IN /\ Len(e) = Cardinality(I) + 2
       /\ Len(e) >= 2
       /\ e[1] = p[1]
       /\ e[Len(e)] = p[Len(p)]
       /\ \A k \in 1..Cardinality(I) : e[k + 1] = p[NthOf(I, k)]

\* C7: Cantus.extremes, and find_local_extrema on the same pitch list p, return p[0], then
\* the interior pitches strictly above or strictly below both neighbours in their order,
\* then p[-1]; so the first is p[0], the last is p[-1] and there are at least 2.
C7_Extremes ==
    cantus_call \in {"extremes", "find_local_extrema"} =>
        EndpointsAndStrictExtrema(cantus_result, pitches(cantus_intervals))

\* extremes of a melody with a plateau and a strict interior extremum
C7_Witness ==
    /\ cantus_call = "extremes"
    /\ Len(cantus_intervals) = 4
    /\ 0 \in Range(cantus_intervals)
    /\ Len(cantus_result) = 3

\* C8 as stated: the Cantus of the empty interval list has length 1, pitches [0],
\* degrees [0], range 0 and exactly one extreme.
C8_EmptyCantusOneExtreme ==
    cantus_intervals = <<>> =>
        /\ cantus_call = "length" => cantus_result = <<1>>
        /\ cantus_call = "pitches" => cantus_result = <<0>>
        /\ cantus_call = "degrees" => cantus_result = <<0>>
        /\ cantus_call = "range" => cantus_result = <<0>>
        /\ cantus_call = "extremes" => Len(cantus_result) = 1

\* C8 amended: the Cantus of the empty interval list has length 1, pitches [0],
\* degrees [0], range 0, and extremes [0, 0]: the one pitch as first and as last.
C8_EmptyCantus ==
    cantus_intervals = <<>> =>
        /\ cantus_call = "length" => cantus_result = <<1>>
        /\ cantus_call = "pitches" => cantus_result = <<0>>
        /\ cantus_call = "degrees" => cantus_result = <<0>>
        /\ cantus_call = "range" => cantus_result = <<0>>
        /\ cantus_call = "extremes" => cantus_result = <<0, 0>>

\* extremes has been read from the Cantus of the empty interval list
C8_Witness == cantus_intervals = <<>> /\ cantus_call = "extremes"

(***************************************************************************)
(* Properties of the conversions (specification SpecConverter)             *)
(***************************************************************************)
\* C9 as stated: standard -> Taneyev -> standard gives n back for every n with |n| >= 1.
C9_RoundTripIdentity ==
    (conv_call = "taneyev_to_standard" /\ Abs(conv_n) >= 1) => conv_result = <<conv_n>>

\* C9 amended: standard -> Taneyev -> standard gives n back for every n with |n| >= 1
\* other than -1, and gives 1 for n = -1.
C9_RoundTrip ==
    (conv_call = "taneyev_to_standard" /\ Abs(conv_n) >= 1) =>
        conv_result = <<IF conv_n = -1 THEN 1 ELSE conv_n>>

\* the round trip has been made from -1
C9_Witness == conv_call = "taneyev_to_standard" /\ conv_n = -1 /\ conv_result = <<1>>

\* C10: convert_pitches_to_degrees maps each pitch p to (p mod 7) + 1, the Cantus degree
\* of p plus one, a number in 1..7.
C10_DocumentedDegrees ==
    conv_call = "convert_pitches_to_degrees" =>
        /\ Len(conv_result) = Len(conv_pitches)
        /\ \A i \in DOMAIN conv_pitches :
              /\ conv_result[i] = (conv_pitches[i] % 7) + 1
              /\ conv_result[i] = pitch_to_degree(conv_pitches[i]) + 1
              /\ conv_result[i] \in 1..7

(***************************************************************************)
(* Properties of the rule predicates (specification SpecRules)             *)
(***************************************************************************)
\* s has n consecutive equal entries
HasEqualRun(s, n) ==
    \E i \in 1..(Len(s) - n + 1) : \A j \in i..(i + n - 1) : s[j] = s[i]

\* the call returned an acceptance: is_valid_melody True, or process_perm the list itself
Accepted ==
    \/ cantus_call = "is_valid_melody" /\ cantus_result = <<TRUE>>
    \/ cantus_call = "process_perm" /\ cantus_result = <<cantus_intervals>>

\* C11: is_not_too_linear returns False exactly when the interval list has five or more
\* consecutive equal intervals, and nothing that is_valid_melody or the stage 3 worker
\* accepts has five consecutive equal intervals
C11_NoFiveEqualIntervals ==
    /\ cantus_call = "is_not_too_linear" =>
            cantus_result = <<~HasEqualRun(cantus_intervals, 5)>>
    /\ Accepted => ~HasEqualRun(cantus_intervals, 5)

\* is_not_too_linear has returned False on a list that is more than one run of five
C11_Witness ==
    /\ cantus_call = "is_not_too_linear"
    /\ cantus_result = <<FALSE>>
    /\ Len(cantus_intervals) = 6
    /\ cantus_intervals[1] # cantus_intervals[2]

\* how often the most frequent pitch value occurs
MostFrequent(pitch_list) ==
    CHOOSE n \in 1..Len(pitch_list) :
        /\ \E i \in DOMAIN pitch_list : Count(pitch_list, pitch_list[i]) = n
        /\ \A i \in DOMAIN pitch_list : Count(pitch_list, pitch_list[i]) <= n

LeapPrefixes(s) == {SubSeq(s, 1, i) : i \in {j \in DOMAIN s : Abs(s[j]) >= 3}}

\* the three tails; g[n] is the leap, halves are compared doubled:
\* |prev1| < |leap|/2 - 0.5 is 2|prev1| < |leap| - 1, |prev1 + prev2| < |leap|/2 is
\* 2|prev1 + prev2| < |leap|
BadTail(g) ==
    LET n == Len(g)
        leap == g[n]
        SameDirection(x) == (x > 0 /\ leap > 0) \/ (x < 0 /\ leap < 0)
        Opposite(x) == (x > 0 /\ leap < 0) \/ (x < 0 /\ leap > 0)
    IN \/ n >= 2 /\ SameDirection(g[n - 1])
       \/ /\ n >= 3
          /\ Opposite(g[n - 1])
          /\ SameDirection(g[n - 2])
          /\ 2 * Abs(g[n - 1]) < Abs(leap) - 1
       \/ /\ n >= 4
          /\ Opposite(g[n - 1])
          /\ Opposite(g[n - 2])
          /\ SameDirection(g[n - 3])
          /\ 2 * Abs(g[n - 1] + g[n - 2]) < Abs(leap)

\* C13: the segments are the leap-ended prefixes of the interval list and of its reverse,
\* and are_leaps_prepared_and_filled returns False exactly when one of them has a tail
\* (1) same-direction step then leap, (2) same, opposite with |prev1| < |leap|/2 - 0.5, leap,
\* (3) same, opposite, opposite with |prev1 + prev2| < |leap|/2, leap; True otherwise
C13_LeapTails ==
    LET segs == LeapPrefixes(cantus_intervals) \cup LeapPrefixes(Reverse(cantus_intervals)) IN
    /\ cantus_call = "get_segments_until_and_after_leaps" => Range(cantus_result) = segs
    /\ cantus_call = "are_leaps_prepared_and_filled" =>
            cantus_result = <<~(\E g \in segs : BadTail(g))>>

\* the rule has returned False on a list whose only bad tail is of the third kind, read
\* forwards: 1, -1, -1, 5
C13_Witness ==
    /\ cantus_call = "are_leaps_prepared_and_filled"
    /\ cantus_result = <<FALSE>>
    /\ cantus_intervals = <<1, -1, -1, 5>>

\* C15: the leap rule gives a melody and its reverse the same verdict, and the segment
\* list of the reverse is the segment list with its forward and reversed halves swapped
C15_ReversalInvariant ==
    LET reversed == Reverse(cantus_intervals)
        of_reversed == get_segments_until_and_after_leaps(reversed)
        k == Len(get_segments_until_leaps(reversed))
    IN /\ cantus_call = "are_leaps_prepared_and_filled" =>
               cantus_result = <<are_leaps_prepared_and_filled(reversed)>>
       /\ cantus_call = "get_segments_until_and_after_leaps" =>
               cantus_result = SubSeq(of_reversed, k + 1, Len(of_reversed))
                                   \o SubSeq(of_reversed, 1, k)

\* the rule has returned False on a list that differs from its reverse and whose forward
\* segments are all fine: the rejection comes from reading it backwards
C15_Witness ==
    /\ cantus_call = "are_leaps_prepared_and_filled"
    /\ cantus_result = <<FALSE>>
    /\ cantus_intervals # Reverse(cantus_intervals)
    /\ LeapsLoop(get_segments_until_leaps(cantus_intervals), 1)

(***************************************************************************)
(* Order of the pipeline stages (specification Spec)                       *)
(***************************************************************************)
\* the stage that follows st when nothing raises; the two ends follow themselves
StageAfter(st) ==
    CASE st = "enumerate" -> "submit_combos"
      [] st = "submit_combos" -> "permute"
      [] st = "permute" -> "submit_perms"
      [] st = "submit_perms" -> "validate"
      [] st = "validate" -> "done"
      [] OTHER -> st

\* every multiset handed to a permutation task has passed the pre-filter
OnlyFilteredPermuted ==
    stage = "permute" =>
        \A c \in DOMAIN queue : \A i \in DOMAIN queue[c] : ClosedWithSteps(queue[c][i])

\* once validation is being set up or runs, every permutation task has been answered and
\* the orderings handed to validation are the merge of the answers
ValidateAfterMerge ==
    /\ stage \in {"submit_perms", "validate", "done"} =>
          /\ \A c \in DOMAIN combo_results : combo_results[c].st = "returned"
          /\ Range(valid_permutations) = UnionAll(MapResults(combo_results))
    /\ stage = "validate" => Flatten(queue) = valid_permutations

\* within a stage the task list stays as it was handed out, and once the permutation
\* stage is left its answers and their merge stay as they were
StageKeepsItsInput ==
    /\ queue' = queue
    /\ valid_permutations' = valid_permutations
    /\ stage \in {"submit_perms", "validate", "done"} => combo_results' = combo_results

\* C14: the stages follow one another in the order enumerate, permute, validate and never
\* go back; permutation tasks hold only multisets that passed the sum and unit-step
\* pre-filter; validation starts only when every permutation task is answered and merged.
\* The two state conditions are established when a stage is entered and kept within it.
C14_StageOrder ==
    [][/\ stage' \in {stage, StageAfter(stage), "error"}
       /\ stage \in {"done", "error"} => stage' = stage
       /\ IF stage' # stage
          THEN OnlyFilteredPermuted' /\ ValidateAfterMerge'
          ELSE StageKeepsItsInput]_vars

\* a validation task is running, after permutation tasks in more than one chunk were answered
C14_Witness ==
    /\ stage = "validate"
    /\ \E w \in Workers : running[w] # 0
    /\ Len(combo_results) >= 2
    /\ Len(valid_permutations) >= 2

====
